---- MODULE Spec2Model ----
(***************************************************************************)
(* The Quake3 query client of opengsq (opengsq/protocols/quake3.py):       *)
(* get_info, get_status and strip_colors.  Byte strings and decoded text   *)
(* are sequences of one-character strings; an info map is a function from  *)
(* key text to value text; a player list is a sequence of such functions.  *)
(***************************************************************************)
EXTENDS Integers, Sequences, FiniteSets, TLC

\* request_header and response_header are the fields self._request_header
\* and self._response_header of the one Quake3 instance; calls holds the
\* frame of each call in progress on it; text and stripped are the input
\* and the output of strip_colors.
VARIABLES request_header, response_header, calls, text, stripped

vars == <<request_header, response_header, calls, text, stripped>>

(* ------------------------------ bounds -------------------------------- *)

\* Longest text handed to strip_colors in SpecStrip.
MaxLen == 9

\* Most info tokens in a generated reply.
MaxTokens == 4

\* Most player lines in a generated status reply.
MaxPlayers == 1

\* Calls in progress at once on the instance in SpecPair.
NumCalls == 2

(* ----------------------------- literals ------------------------------- *)

\* quake3.py:38, the header get_info expects.
info_response_header ==
    <<"i", "n", "f", "o", "R", "e", "s", "p", "o", "n", "s", "e", "\n">>

\* quake3.py:25, the value of self._response_header, the header get_status
\* expects.
status_response_header ==
    <<"s", "t", "a", "t", "u", "s", "R", "e", "s", "p", "o", "n", "s", "e", "\n">>

\* quake3.py:24, the value of self._request_header; quake3.py:34, the
\* get_info request.  Requests are never parsed, so they stay atomic.
status_request_header == "getstatus"

getinfo_request == "getinfo opengsq"

\* The field delimiter (self._delimiter1) and the record delimiter.
delimiter1 == "\\"

delimiter2 == "\n"

\* The delimiter between the fields of a player line.
player_delimiter == " "

k_hostname ==
    <<"h", "o", "s", "t", "n", "a", "m", "e">>

k_sv_hostname ==
    <<"s", "v", "_", "h", "o", "s", "t", "n", "a", "m", "e">>

k_name ==
    <<"n", "a", "m", "e">>

k_score ==
    <<"s", "c", "o", "r", "e">>

k_ping ==
    <<"p", "i", "n", "g">>

\* The positional schema of a player line.
player_schema == <<k_score, k_ping, k_name>>

\* The parts of the InvalidPacketException message, quake3.py:42.
MsgReceived ==
    <<"P", "a", "c", "k", "e", "t", " ", "h", "e", "a", "d", "e", "r", " ",
      "m", "i", "s", "m", "a", "t", "c", "h", ".", " ",
      "R", "e", "c", "e", "i", "v", "e", "d", ":", " ">>

MsgExpected ==
    <<".", " ", "E", "x", "p", "e", "c", "t", "e", "d", ":", " ">>

MsgEnd ==
    <<".">>

(* --------------------------- strip_colors ----------------------------- *)

\* "." of the pattern: any character but a line break.
Dot(c) == c /= "\n"

\* The alternative X.{6} after the marker at position i.
MatchExtended(t, i) ==
    /\ i + 7 <= Len(t)
    /\ t[i + 1] = "X"
    /\ \A j \in (i + 2)..(i + 7) : Dot(t[j])

\* The alternative "." after the marker at position i.
MatchSingle(t, i) ==
    /\ i + 1 <= Len(t)
    /\ Dot(t[i + 1])

\* A faulty pattern \^(.|X.{6}) whose alternatives are in the other order:
\* the single character always wins.
MatchLenSingleFirst(t, i) ==
    IF t[i] /= "^" THEN 0
    ELSE IF MatchSingle(t, i) THEN 2
    ELSE IF MatchExtended(t, i) THEN 8
    ELSE 0

\* Length of the match of \^(X.{6}|.) starting at position i, 0 for none.
\* The alternatives are tried in order, as re does.
MatchLen(t, i) ==
    IF t[i] /= "^" THEN 0
    ELSE IF MatchExtended(t, i) THEN 8
    ELSE IF MatchSingle(t, i) THEN 2
    ELSE 0

RECURSIVE SubFrom(_, _)
\* re.sub("", t) from position i on: leftmost matches, left to right, not
\* overlapping; an unmatched character is copied.
SubFrom(t, i) ==
    IF i > Len(t) THEN <<>>
    ELSE LET n == MatchLen(t, i)
         IN  IF n = 0 THEN <<t[i]>> \o SubFrom(t, i + 1)
             ELSE SubFrom(t, i + n)

RECURSIVE KeepGroupFrom(_, _)
\* A faulty substitution that puts the group of each match back (a
\* replacement of "\\1" for ""): only the marker itself is deleted.
KeepGroupFrom(t, i) ==
    IF i > Len(t) THEN <<>>
    ELSE LET n == MatchLen(t, i)
         IN  IF n = 0 THEN <<t[i]>> \o KeepGroupFrom(t, i + 1)
             ELSE SubSeq(t, i + 1, i + n - 1) \o KeepGroupFrom(t, i + n)

strip_colors_keep_group(t) == KeepGroupFrom(t, 1)

\* A faulty pattern "^(X.{6}|.)" whose caret is left unescaped: it anchors
\* at the start of the text and deletes what stands there.
strip_colors_unescaped(t) ==
    IF Len(t) >= 7 /\ t[1] = "X" /\ \A j \in 2..7 : Dot(t[j])
    THEN SubSeq(t, 8, Len(t))
    ELSE IF Len(t) >= 1 /\ Dot(t[1]) THEN SubSeq(t, 2, Len(t))
    ELSE t

strip_colors(t) == SubFrom(t, 1)

(* ------------------------- binary reader ------------------------------ *)

Min(a, b) == IF a < b THEN a ELSE b

\* The first position from pos on that holds one of delims, 0 for none.
IndexOf(buf, pos, delims) ==
    LET hits == {i \in pos..Len(buf) : buf[i] \in delims}
    IN  IF hits = {} THEN 0
        ELSE CHOOSE i \in hits : \A j \in hits : i <= j

\* The text from pos up to the next delimiter, and the position after the
\* delimiter; no delimiter before the end of the buffer is a failed read.
read_string(buf, pos, delim) ==
    LET i == IndexOf(buf, pos, {delim})
    IN  IF i = 0 THEN [ok |-> FALSE, value |-> <<>>, pos |-> pos]
        ELSE [ok |-> TRUE, value |-> SubSeq(buf, pos, i - 1), pos |-> i + 1]

RECURSIVE Split(_, _)
\* s split on every d: one token more than there are delimiters.
Split(s, d) ==
    LET i == IndexOf(s, 1, {d})
    IN  IF i = 0 THEN <<s>>
        ELSE <<SubSeq(s, 1, i - 1)>> \o Split(SubSeq(s, i + 1, Len(s)), d)

RECURSIVE Lines(_)
\* The lines of s: each ends at a record delimiter; a last one without it
\* counts when it is not empty.
Lines(s) ==
    LET i == IndexOf(s, 1, {delimiter2})
    IN  IF i = 0 THEN (IF s = <<>> THEN <<>> ELSE <<s>>)
        ELSE <<SubSeq(s, 1, i - 1)>> \o Lines(SubSeq(s, i + 1, Len(s)))

\* Tokens taken in pairs (key, value); a last token without a pair is
\* dropped; the last value written under a key stays.
PairsToMap(tokens) ==
    LET n    == Len(tokens) \div 2
        keys == {tokens[2 * i - 1] : i \in 1..n}
        last(k) == CHOOSE i \in 1..n :
                      /\ tokens[2 * i - 1] = k
                      /\ \A j \in 1..n : tokens[2 * j - 1] = k => j <= i
    IN  [k \in keys |-> tokens[2 * last(k)]]

\* The info block: from pos to the end of the line (or of the buffer),
\* split on the field delimiter.  pos is then the start of the next line.
parse_info(buf, pos) ==
    LET i     == IndexOf(buf, pos, {delimiter2})
        stop  == IF i = 0 THEN Len(buf) ELSE i - 1
        block == SubSeq(buf, pos, stop)
    IN  [info |-> PairsToMap(Split(block, delimiter1)),
         pos  |-> IF i = 0 THEN Len(buf) + 1 ELSE i + 1]

\* One player line: its fields named by position; fields the line lacks
\* are absent from the record.
PlayerOf(line) ==
    LET fields == Split(line, player_delimiter)
        n      == Min(Len(fields), Len(player_schema))
    IN  [k \in {player_schema[i] : i \in 1..n} |->
            fields[CHOOSE i \in 1..n : player_schema[i] = k]]

\* The player records: one for each line after the info block, in order.
parse_players(buf, pos) ==
    LET ls == Lines(SubSeq(buf, pos, Len(buf)))
    IN  [i \in 1..Len(ls) |-> PlayerOf(ls[i])]

(* ------------------------------ get_info ------------------------------ *)

NoError == [kind |-> "none", message |-> <<>>]

\* quake3.py:27, the default of the parameter strip_color.
strip_color_default == TRUE

\* A faulty test against the header of get_status.
HeaderMatchesStatus(header) == header = status_response_header

\* quake3.py:40 with the sense of the test turned: the header passes.
HeaderMatches(header) == header = info_response_header

\* quake3.py:41-43, and the same message of the base protocol.
InvalidPacket(header, expected) ==
    [kind    |-> "InvalidPacketException",
     message |-> MsgReceived \o header \o MsgExpected \o expected \o MsgEnd]

TruncatedPacket == [kind |-> "TruncatedPacketError", message |-> <<>>]

\* A faulty tail of get_info that reads the host name with a default, and
\* so stores the key when the map lacks it.
InfoPostDefault(info, sc) ==
    IF ~sc THEN info
    ELSE [k \in DOMAIN info \cup {k_hostname} |->
            IF k = k_hostname
            THEN (IF k \in DOMAIN info THEN strip_colors(info[k]) ELSE <<>>)
            ELSE info[k]]

\* A faulty tail of get_info that ignores the flag.
InfoPostAlways(info, sc) ==
    IF k_hostname \in DOMAIN info
    THEN [info EXCEPT ![k_hostname] = strip_colors(@)]
    ELSE info

\* quake3.py:47-53: what get_info returns for the decoded info.
InfoPost(info, sc) ==
    IF ~sc THEN info
    ELSE IF k_hostname \in DOMAIN info
         THEN [info EXCEPT ![k_hostname] = strip_colors(@)]
         ELSE info

\* A faulty tail of get_status that sanitizes every value.
StatusPostAll(status, sc) ==
    IF ~sc THEN status
    ELSE [info    |-> [k \in DOMAIN status.info |->
                          strip_colors(status.info[k])],
          players |-> [i \in DOMAIN status.players |->
                          [k \in DOMAIN status.players[i] |->
                              strip_colors(status.players[i][k])]]]

\* quake3.py:69-81: what get_status returns for the decoded status.
StatusPost(status, sc) ==
    IF ~sc THEN status
    ELSE [info    |-> IF k_sv_hostname \in DOMAIN status.info
                      THEN [status.info EXCEPT
                              ![k_sv_hostname] = strip_colors(@)]
                      ELSE status.info,
          players |-> [i \in DOMAIN status.players |->
                         IF k_name \in DOMAIN status.players[i]
                         THEN [status.players[i] EXCEPT
                                 ![k_name] = strip_colors(@)]
                         ELSE status.players[i]]]

(* ------------------------------ replies ------------------------------- *)

wrong_header ==
    <<"w", "r", "o", "n", "g", "R", "e", "s", "p", "o", "n", "s", "e", "\n">>

case_header ==
    <<"I", "n", "f", "o", "R", "e", "s", "p", "o", "n", "s", "e", "\n">>

short_header ==
    <<"i", "n", "f", "o", "R", "e", "s", "p", "o", "n", "s", "e">>

RedServer ==
    <<"^", "1", "R", "e", "d", "^", "7", "S", "e", "r", "v", "e", "r">>

Server ==
    <<"S", "e", "r", "v", "e", "r">>

ffa ==
    <<"f", "f", "a">>

k_gametype ==
    <<"g", "a", "m", "e", "t", "y", "p", "e">>

\* b"infoResponse\n\\hostname\\^1Red^7Server\\gametype\\ffa"
Scenario1 ==
    <<"i", "n", "f", "o", "R", "e", "s", "p", "o", "n", "s", "e", "\n", "\\",
      "h", "o", "s", "t", "n", "a", "m", "e", "\\",
      "^", "1", "R", "e", "d", "^", "7", "S", "e", "r", "v", "e", "r", "\\",
      "g", "a", "m", "e", "t", "y", "p", "e", "\\", "f", "f", "a">>

line1 ==
    <<"^", "1", "3", " ", "5", "0", " ", "^", "2", "B", "o", "b">>

line2 ==
    <<"7", " ", "1", "0">>

line3 ==
    <<"0", " ", "0", " ", "^", "X", "f", "f", "0", "0", "0", "0", "a", "A", "l">>

Headers ==
    {info_response_header, status_response_header, wrong_header, case_header,
     short_header}

TokenSet == {k_hostname, k_sv_hostname, RedServer, ffa}

LineSet == {line1, line2, line3}

TokenSeqs == UNION {[1..n -> TokenSet] : n \in 0..MaxTokens}

PlayerSeqs == UNION {[1..n -> LineSet] : n \in 0..MaxPlayers}

RECURSIVE Join(_, _)
\* The tokens with d between them.
Join(ts, d) ==
    IF ts = <<>> THEN <<>>
    ELSE IF Len(ts) = 1 THEN ts[1]
    ELSE ts[1] \o <<d>> \o Join(Tail(ts), d)

RECURSIVE JoinLines(_)
\* The lines, each ended by the record delimiter.
JoinLines(ls) ==
    IF ls = <<>> THEN <<>>
    ELSE ls[1] \o <<delimiter2>> \o JoinLines(Tail(ls))

\* Replies of one info block, not ended by a line break.
InfoReplies ==
    {h \o <<delimiter1>> \o Join(ts, delimiter1) :
        h \in Headers, ts \in TokenSeqs}

\* Replies of an info line and player lines.
StatusReplies ==
    {h \o <<delimiter1>> \o Join(ts, delimiter1) \o <<delimiter2>>
       \o JoinLines(ps) : h \in Headers, ts \in TokenSeqs, ps \in PlayerSeqs}

\* Replies that hold no field delimiter at all.
BareReplies == {<<>>, info_response_header, status_response_header}

Replies == InfoReplies \cup StatusReplies \cup BareReplies \cup {Scenario1}

(* ------------------------------ the client ---------------------------- *)

Calls == 1..NumCalls

\* The one call of Spec.
MainCall == CHOOSE c \in Calls : \A d \in Calls : c <= d

NoCall ==
    [pc |-> "idle", op |-> "none", strip_color |-> TRUE, sent |-> <<>>,
     response_data |-> <<>>, decoded |-> <<>>, result |-> <<>>,
     error |-> NoError]

Init ==
    /\ request_header = status_request_header
    /\ response_header = status_response_header
    /\ calls = [c \in Calls |-> NoCall]
    /\ text = <<>>
    /\ stripped = <<>>

\* The caller calls get_info(strip_color=sc): quake3.py:34 up to the await,
\* the request handed to the transport.
GetInfoCall(c, sc) ==
    /\ calls[c].pc = "idle"
    /\ calls' = [calls EXCEPT ![c] =
                   [@ EXCEPT !.pc = "awaiting_reply", !.op = "get_info",
                             !.strip_color = sc,
                             !.sent = <<getinfo_request>>]]
    /\ UNCHANGED <<request_header, response_header, text, stripped>>

\* The caller calls get_status(strip_color=sc): quake3.py:62 up to the
\* await, self._request_header handed to the transport.
GetStatusCall(c, sc) ==
    /\ calls[c].pc = "idle"
    /\ calls' = [calls EXCEPT ![c] =
                   [@ EXCEPT !.pc = "awaiting_reply", !.op = "get_status",
                             !.strip_color = sc,
                             !.sent = <<request_header>>]]
    /\ UNCHANGED <<request_header, response_header, text, stripped>>

\* The frame of a call that ends with an error.
Raised(call, data, e) ==
    [call EXCEPT !.pc = "done", !.response_data = <<data>>, !.error = e]

\* The frame of a call that ends with a result.
Finished(call, data, dec, res) ==
    [call EXCEPT !.pc = "done", !.response_data = <<data>>,
                 !.decoded = <<dec>>, !.result = <<res>>]

\* A faulty get_info that asks again when the header does not match.
get_info_retry(c, data) ==
    LET h == read_string(data, 1, delimiter1)
    IN  /\ calls' = [calls EXCEPT ![c] =
              IF ~h.ok THEN Raised(@, data, TruncatedPacket)
              ELSE IF ~HeaderMatches(h.value)
              THEN IF Len(@.sent) < 3
                   THEN [@ EXCEPT !.sent = Append(@, getinfo_request)]
                   ELSE Raised(@, data,
                               InvalidPacket(h.value, info_response_header))
              ELSE LET info == parse_info(data, h.pos).info
                   IN  Finished(@, data, info, InfoPost(info, @.strip_color))]
        /\ UNCHANGED <<request_header, response_header>>

\* A faulty get_info that stores its header in self._response_header.
get_info_stores_header(c, data) ==
    LET h == read_string(data, 1, delimiter1)
    IN  /\ calls' = [calls EXCEPT ![c] =
              IF ~h.ok THEN Raised(@, data, TruncatedPacket)
              ELSE IF ~HeaderMatches(h.value)
              THEN Raised(@, data,
                          InvalidPacket(h.value, info_response_header))
              ELSE LET info == parse_info(data, h.pos).info
                   IN  Finished(@, data, info, InfoPost(info, @.strip_color))]
        /\ response_header' = info_response_header
        /\ UNCHANGED request_header

\* quake3.py:36-53: get_info from the reply on.  The header it checks is
\* its own local one; the fields of the instance are not written.
get_info(c, data) ==
    LET h == read_string(data, 1, delimiter1)
    IN  /\ calls' = [calls EXCEPT ![c] =
              IF ~h.ok THEN Raised(@, data, TruncatedPacket)
              ELSE IF ~HeaderMatches(h.value)
              THEN Raised(@, data,
                          InvalidPacket(h.value, info_response_header))
              ELSE LET info == parse_info(data, h.pos).info
                   IN  Finished(@, data, info, InfoPost(info, @.strip_color))]
        /\ UNCHANGED <<request_header, response_header>>

\* get_status from the reply on: the header check of
\* _get_response_binary_reader against self._response_header, then
\* quake3.py:64-81.
get_status(c, data) ==
    LET h == read_string(data, 1, delimiter1)
    IN  /\ calls' = [calls EXCEPT ![c] =
              IF ~h.ok THEN Raised(@, data, TruncatedPacket)
              ELSE IF h.value /= response_header
              THEN Raised(@, data, InvalidPacket(h.value, response_header))
              ELSE LET i      == parse_info(data, h.pos)
                       status == [info    |-> i.info,
                                  players |-> parse_players(data, i.pos)]
                   IN  Finished(@, data, status,
                                StatusPost(status, @.strip_color))]
        /\ UNCHANGED <<request_header, response_header>>

\* The transport hands a reply of R to the waiting get_info.
GetInfoReply(c, R) ==
    /\ calls[c].pc = "awaiting_reply"
    /\ calls[c].op = "get_info"
    /\ \E data \in R : get_info(c, data)
    /\ UNCHANGED <<text, stripped>>

\* The transport hands a reply of R to the waiting get_status.
GetStatusReply(c, R) ==
    /\ calls[c].pc = "awaiting_reply"
    /\ calls[c].op = "get_status"
    /\ \E data \in R : get_status(c, data)
    /\ UNCHANGED <<text, stripped>>

TransportErrors == {"TimeoutError", "TransportError"}

\* The transport raises instead of replying; nothing in get_info or
\* get_status catches it (quake3.py:34, quake3.py:62).
TransportRaises(c, kind) ==
    /\ calls[c].pc = "awaiting_reply"
    /\ calls' = [calls EXCEPT ![c] =
                   [@ EXCEPT !.pc = "done",
                             !.error = [kind |-> kind, message |-> <<>>]]]
    /\ UNCHANGED <<request_header, response_header, text, stripped>>

\* The caller has the outcome; nothing of the call is kept.
Return(c) ==
    /\ calls[c].pc = "done"
    /\ calls' = [calls EXCEPT ![c] = NoCall]
    /\ UNCHANGED <<request_header, response_header, text, stripped>>

\* One call at a time, every reply of the bounds.
Next ==
    \/ \E sc \in BOOLEAN : GetInfoCall(MainCall, sc)
    \/ \E sc \in BOOLEAN : GetStatusCall(MainCall, sc)
    \/ GetInfoReply(MainCall, Replies)
    \/ GetStatusReply(MainCall, Replies)
    \/ \E kind \in TransportErrors : TransportRaises(MainCall, kind)
    \/ Return(MainCall)

Spec == Init /\ [][Next]_vars

\* b"statusResponse\n\\sv_hostname\\^1Red^7Server\n^13 50 ^2Bob\n"
StatusSample ==
    status_response_header \o <<delimiter1>>
      \o Join(<<k_sv_hostname, RedServer>>, delimiter1) \o <<delimiter2>>
      \o JoinLines(<<line1>>)

PairReplies ==
    {Scenario1, StatusSample, wrong_header \o <<delimiter1>> \o ffa, <<>>}

\* NumCalls calls on the one instance, each suspended at its await while
\* the others run.
NextPair ==
    \E c \in Calls :
        \/ \E sc \in BOOLEAN : GetInfoCall(c, sc)
        \/ \E sc \in BOOLEAN : GetStatusCall(c, sc)
        \/ GetInfoReply(c, PairReplies)
        \/ GetStatusReply(c, PairReplies)
        \/ \E kind \in TransportErrors : TransportRaises(c, kind)
        \/ Return(c)

SpecPair == Init /\ [][NextPair]_vars

(* ------------------------------ claims -------------------------------- *)

\* sub stands somewhere in msg.
Contains(msg, sub) ==
    \E i \in 0..(Len(msg) - Len(sub)) : SubSeq(msg, i + 1, i + Len(sub)) = sub

HasMarker(t) == \E i \in 1..Len(t) : t[i] = "^"

Replied(c, o) ==
    calls[c].pc = "done" /\ calls[c].op = o /\ calls[c].response_data /= <<>>

Returned(c, o) == Replied(c, o) /\ calls[c].result /= <<>>

\* The leading token of the reply of call c.
Token(c) == read_string(calls[c].response_data[1], 1, delimiter1)

\* C1: when get_info has a reply whose leading token (up to the first field
\* delimiter) differs from "infoResponse\n", the call ends with an
\* InvalidPacketException whose message holds both the token and the
\* expected header, and nothing is decoded or returned; when the token is
\* equal, there is no InvalidPacketException.
C1_HeaderCheck ==
    \A c \in Calls :
        (Replied(c, "get_info") /\ Token(c).ok) =>
              /\ Token(c).value /= info_response_header =>
                    /\ calls[c].error.kind = "InvalidPacketException"
                    /\ Contains(calls[c].error.message, Token(c).value)
                    /\ Contains(calls[c].error.message, info_response_header)
                    /\ calls[c].decoded = <<>>
                    /\ calls[c].result = <<>>
              /\ Token(c).value = info_response_header =>
                    calls[c].error.kind /= "InvalidPacketException"

\* get_info has refused a reply that starts "wrongResponse\n".
C1_Witness ==
    \E c \in Calls :
        /\ Replied(c, "get_info")
        /\ Token(c).value = wrong_header
        /\ calls[c].error.kind = "InvalidPacketException"
        /\ Contains(calls[c].error.message, wrong_header)

Scenario1Claimed == (k_hostname :> Server) @@ (k_gametype :> ffa)

RedServerPlain ==
    <<"R", "e", "d", "S", "e", "r", "v", "e", "r">>

Scenario1Result == (k_hostname :> RedServerPlain) @@ (k_gametype :> ffa)

Scenario1Call(c) ==
    /\ Replied(c, "get_info")
    /\ calls[c].strip_color = strip_color_default
    /\ calls[c].response_data = <<Scenario1>>

\* C2 as stated: for the reply
\* "infoResponse\n\hostname\^1Red^7Server\gametype\ffa" get_info with the
\* default strip_color returns exactly
\* {"hostname": "Server", "gametype": "ffa"}.
C2_Scenario1 ==
    \A c \in Calls :
        Scenario1Call(c) =>
            /\ calls[c].error = NoError
            /\ calls[c].result = <<Scenario1Claimed>>

\* C2 as amended: for that reply get_info with the default strip_color
\* returns exactly {"hostname": "RedServer", "gametype": "ffa"}: the
\* pattern deletes "^1" and "^7" and no character after them.
C2_Scenario1Amended ==
    \A c \in Calls :
        Scenario1Call(c) =>
            /\ calls[c].error = NoError
            /\ calls[c].result = <<Scenario1Result>>

C2_Witness ==
    \E c \in Calls :
        /\ Scenario1Call(c)
        /\ calls[c].decoded =
              <<(k_hostname :> RedServer) @@ (k_gametype :> ffa)>>
        /\ calls[c].result = <<Scenario1Result>>

\* C3: with strip_color false, what get_info and get_status return is what
\* the decoder produced: every key and every value, of the info map and of
\* every player record, color sequences included.
C3_Unmodified ==
    \A c \in Calls :
        (/\ calls[c].pc = "done"
         /\ ~calls[c].strip_color
         /\ calls[c].result /= <<>>)
        => calls[c].result = calls[c].decoded

\* Scenario 2: the reply of scenario 1, hostname returned as received.
C3_Witness ==
    \E c \in Calls :
        /\ Returned(c, "get_info")
        /\ ~calls[c].strip_color
        /\ calls[c].response_data = <<Scenario1>>
        /\ calls[c].result[1][k_hostname] = RedServer

\* The maps have the same keys and differ at most under the key k.
SameBut(a, b, k) ==
    /\ DOMAIN a = DOMAIN b
    /\ \A x \in DOMAIN a \ {k} : a[x] = b[x]

C7_OneExchange ==
    \A c \in Calls :
        /\ calls[c].pc = "idle" => calls[c].sent = <<>>
        /\ calls[c].pc /= "idle" =>
              calls[c].sent = <<IF calls[c].op = "get_info"
                                THEN getinfo_request
                                ELSE status_request_header>>
        /\ calls[c].pc = "awaiting_reply" =>
              (calls[c].error = NoError /\ calls[c].result = <<>>)
        /\ calls[c].error /= NoError =>
              /\ calls[c].pc = "done"
              /\ calls[c].result = <<>>
              /\ calls[c].decoded = <<>>
        /\ calls[c].pc = "done" =>
              (calls[c].error = NoError) /= (calls[c].result = <<>>)

\* A call that timed out, or was refused for its header: one request, no
\* result.
C7_Witness ==
    \E c \in Calls :
        /\ calls[c].pc = "done"
        /\ calls[c].error.kind \in {"TimeoutError", "InvalidPacketException"}
        /\ Len(calls[c].sent) = 1
        /\ calls[c].result = <<>>

\* C8: whatever calls have run or are running on the instance, its request
\* header stays b"getstatus" and its response header "statusResponse\n";
\* get_info checks its reply against "infoResponse\n" and get_status against
\* the status header, so get_info refuses a reply with the status header;
\* and two calls of the same operation with the same flag and the same
\* reply end the same way.
C8_NoInterference ==
    /\ request_header = status_request_header
    /\ response_header = status_response_header
    /\ \A c \in Calls :
          /\ (Replied(c, "get_info") /\ Token(c).ok) =>
                (calls[c].error.kind = "InvalidPacketException"
                   <=> Token(c).value /= info_response_header)
          /\ (Replied(c, "get_status") /\ Token(c).ok) =>
                (calls[c].error.kind = "InvalidPacketException"
                   <=> Token(c).value /= status_response_header)
    /\ \A c, d \in Calls :
          (/\ calls[c].pc = "done"
           /\ calls[d].pc = "done"
           /\ calls[c].op = calls[d].op
           /\ calls[c].strip_color = calls[d].strip_color
           /\ calls[c].response_data = calls[d].response_data
           /\ calls[c].response_data /= <<>>)
          => (calls[c].result = calls[d].result
                /\ calls[c].error = calls[d].error)

\* A get_info refused for carrying the status header stands beside a
\* get_status that took the same reply.
C8_Witness ==
    \E c, d \in Calls :
        /\ Replied(c, "get_info")
        /\ Returned(d, "get_status")
        /\ calls[c].response_data = <<StatusSample>>
        /\ calls[d].response_data = <<StatusSample>>
        /\ calls[c].error.kind = "InvalidPacketException"

\* C10: with strip_color true, an info map without "hostname" (get_info) or
\* without "sv_hostname" (get_status), a player record without "name" and
\* an empty player sequence are all returned as decoded: the call ends
\* without error, no key is added, and get_status returns a player
\* sequence, possibly empty.
C10_MissingFields ==
    \A c \in Calls :
        (calls[c].pc = "done" /\ calls[c].strip_color
           /\ calls[c].decoded /= <<>>) =>
            LET dec == calls[c].decoded[1]
            IN  /\ calls[c].error = NoError
                /\ calls[c].result /= <<>>
                /\ (calls[c].op = "get_info" /\ k_hostname \notin DOMAIN dec)
                      => calls[c].result[1] = dec
                /\ calls[c].op = "get_status" =>
                      LET res == calls[c].result[1]
                      IN  /\ DOMAIN res = {"info", "players"}
                          /\ k_sv_hostname \notin DOMAIN dec.info
                                => res.info = dec.info
                          /\ DOMAIN res.players = DOMAIN dec.players
                          /\ \A i \in DOMAIN dec.players :
                                k_name \notin DOMAIN dec.players[i]
                                   => res.players[i] = dec.players[i]
                          /\ dec.players = <<>> => res.players = <<>>

\* get_status has returned, colors stripped, an info map that has a colored
\* value but no "sv_hostname", and a player record that has no "name".
C10_Witness ==
    \E c \in Calls :
        /\ Returned(c, "get_status")
        /\ calls[c].strip_color
        /\ LET dec == calls[c].decoded[1]
           IN  /\ k_sv_hostname \notin DOMAIN dec.info
               /\ \E k \in DOMAIN dec.info : HasMarker(dec.info[k])
               /\ Len(dec.players) = 1
               /\ k_name \notin DOMAIN dec.players[1]
               /\ calls[c].result[1] = dec

(* ------------------------------ SpecStrip ----------------------------- *)

Alphabet == {"^", "X", "a", "\n"}

InitStrip ==
    /\ request_header = status_request_header
    /\ response_header = status_response_header
    /\ calls = [c \in Calls |-> NoCall]
    /\ text = <<>>
    /\ stripped = strip_colors(<<>>)

\* One more character of input, and strip_colors applied to the whole.
StripAppend(c) ==
    /\ Len(text) < MaxLen
    /\ text' = Append(text, c)
    /\ stripped' = strip_colors(text')
    /\ UNCHANGED <<request_header, response_header, calls>>

NextStrip == \E c \in Alphabet : StripAppend(c)

SpecStrip == InitStrip /\ [][NextStrip]_vars

\* C4: strip_colors is idempotent: applying it to its own output changes
\* nothing, for every text over the alphabet (markers in a row, a trailing
\* marker, ^X with fewer than six characters after it, line breaks).
C4_Idempotent == strip_colors(stripped) = stripped

\* A text where the extended alternative cannot match for lack of
\* characters, and one where markers stand in a row before a line break.
C4_Witness ==
    /\ \E i \in 1..(Len(text) - 1) :
          text[i] = "^" /\ text[i + 1] = "X" /\ MatchLen(text, i) = 2
    /\ \E i \in 1..(Len(text) - 1) :
          text[i] = "^" /\ text[i + 1] = "\n" /\ MatchLen(text, i) = 0
    /\ text[Len(text)] = "^"
    /\ stripped /= text
    /\ HasMarker(stripped)

\* C5: strip_colors returns a text without the marker "^" unchanged, and
\* has a result for every text, the empty one included.
C5_Identity ==
    /\ stripped \in Seq(Alphabet)
    /\ ~HasMarker(text) => stripped = text

C5_Witness ==
    /\ Len(text) = MaxLen
    /\ ~HasMarker(text)
    /\ \E i \in 1..Len(text) : text[i] = "X"
    /\ \E i \in 1..Len(text) : text[i] = "\n"
    /\ stripped = text

RECURSIVE RefScan(_, _, _, _, _)
\* One pass over t from position i on: last is the last position deleted
\* by a sequence that started before i, out the characters kept so far.
\* A sequence starts at a marker that no earlier sequence deleted, the
\* extended form first; chars are the characters that may follow a marker.
RefScan(t, chars, i, last, out) ==
    IF i > Len(t) THEN out
    ELSE IF last >= i THEN RefScan(t, chars, i + 1, last, out)
    ELSE IF /\ t[i] = "^"
            /\ i + 7 <= Len(t)
            /\ t[i + 1] = "X"
            /\ \A j \in (i + 2)..(i + 7) : t[j] \in chars
         THEN RefScan(t, chars, i + 1, i + 7, out)
    ELSE IF t[i] = "^" /\ i + 1 <= Len(t) /\ t[i + 1] \in chars
         THEN RefScan(t, chars, i + 1, i + 1, out)
    ELSE RefScan(t, chars, i + 1, last, Append(out, t[i]))

\* The text with the sequences deleted.
RefStrip(t, chars) == RefScan(t, chars, 1, 0, <<>>)

AnyCharacter == Alphabet

NotLineBreak == Alphabet \ {"\n"}

\* C9 as stated: strip_colors deletes, in one pass from left to right,
\* every "^" followed by one character, or by "X" and six characters (the
\* longer form first when "^X" has six characters after it), and keeps
\* every other character in its place.
C9_AnyCharacter == stripped = RefStrip(text, AnyCharacter)

\* C9 as amended: the same, where the character after "^", and each of the
\* six after "^X", is any character but a line break; a "^" before a line
\* break or at the end of the text is kept, and "^X" with a line break
\* among the next six characters loses only "^X".
C9_NotLineBreak == stripped = RefStrip(text, NotLineBreak)

\* A text whose extended sequence was deleted whole and whose first
\* character was kept.
C9_Witness ==
    /\ Len(text) = 9
    /\ text[1] = "a"
    /\ \A i \in 2..9 : text[i] = (IF i = 2 THEN "^" ELSE IF i = 3 THEN "X" ELSE "a")
    /\ stripped = <<"a">>
====
